---- MODULE Spec2Model ----
(***************************************************************************)
(* The portfolio ledger of AI_Hype_Hunter: the `portfolio` and `journal`   *)
(* tables (src/src/database.py), PortfolioManager.execute_buy and          *)
(* execute_sell (src/src/portfolio.py), and the cash deposit of the        *)
(* dashboard's buy_form (src/app.py).                                      *)
(*                                                                         *)
(* Float columns are modelled by exact numbers: quantities and prices are  *)
(* integers (the inputs are drawn from integers and the code only adds,    *)
(* subtracts and multiplies them), costs and P&L figures are fractions     *)
(* <<numerator, denominator>> in lowest terms.  Floating-point rounding    *)
(* error is not modelled; round(x, 2) is.  The timestamp columns, `target` *)
(* and the free-text `reason` are left out: no operation reads them.       *)
(*                                                                         *)
(* After the ledger (Spec) come, each with a specification of its own:     *)
(* two execute_buy calls run at once (SpecRace), the hype scanner's        *)
(* time-of-day weight (SpecTod) and metrics (SpecMetrics) of               *)
(* src/src/hype_scanner.py, the risk sizing (SpecRisk) and the callers of  *)
(* get_hype_metrics (SpecApp) of src/app.py, and the monitor loop of       *)
(* src/src/autoshutdown.py (SpecMonitor).                                  *)
(***************************************************************************)
EXTENDS Integers, Sequences, FiniteSets, TLC

\* ---------------------------------------------------------------- bounds
\* how many operations may change the tables: trades plus deposits
MaxOps == 3
\* The cash init_db seeds.  The program seeds 5000.0; the model seeds a
\* smaller balance so that the fractions of the averaged costs stay within
\* TLC's 32-bit integers.  No operation compares against the seed.
SeedCash == 10

\* the inputs of the calls: one stock, the seeded cash symbol and the cash
\* symbol the ledger writes; prices from 0 (the form's minimum); quantities
\* from 0; execute_sell's optional quantity is <<>> for None, <<q>> for an
\* explicit one, negative included
Tickers == {"EUR", "USD", "AAPL"}
Prices == {0, 1, 2}
BuyQuantities == {0, 1, 2}
SellQuantities == {<<>>, <<-1>>, <<0>>, <<1>>, <<2>>}
DepositQuantities == {1}
\* where the store raises: nowhere, at the handler's second query, at commit
Faults == {"none", "query", "commit"}

\* ------------------------------------------------------------- fractions
Abs(x) == IF x < 0 THEN -x ELSE x

RECURSIVE GCD(_, _)
GCD(a, b) == IF b = 0 THEN a ELSE GCD(b, a % b)

\* n/d in lowest terms with a positive denominator (d # 0)
Frac(n, d) ==
  LET g == GCD(Abs(n), Abs(d))
      s == IF d < 0 THEN -1 ELSE 1
  IN <<(s * n) \div g, (s * d) \div g>>

FInt(i) == <<i, 1>>
FAdd(a, b) == Frac(a[1] * b[2] + b[1] * a[2], a[2] * b[2])
FSub(a, b) == Frac(a[1] * b[2] - b[1] * a[2], a[2] * b[2])
FMul(a, b) == Frac(a[1] * b[1], a[2] * b[2])
FDiv(a, b) == Frac(a[1] * b[2], a[2] * b[1])
FPos(a) == a[1] > 0

\* Python's round(x, 2): to the nearest hundredth, ties to the even one
round2(x) ==
  LET n == 100 * x[1]
      d == x[2]
      q == n \div d
      r == n % d
      up == (2 * r > d) \/ (2 * r = d /\ q % 2 = 1)
  IN Frac(IF up THEN q + 1 ELSE q, 100)

\* ------------------------------------------------------------ the tables

\* a row of `portfolio`
Position(id, ticker, cost, quantity, status) ==
  [id |-> id, ticker |-> ticker, cost |-> cost, quantity |-> quantity,
   status |-> status]

\* a row of `journal`
Trade(ticker, action, quantity, entry_price, exit_price, pnl_pct, pnl_abs) ==
  [ticker |-> ticker, action |-> action, quantity |-> quantity,
   entry_price |-> entry_price, exit_price |-> exit_price,
   pnl_pct |-> pnl_pct, pnl_abs |-> pnl_abs]

\* what .first() gives on an empty result
NoRow == Position(0, "", FInt(0), 0, "")

\* the symbols execute_buy, execute_sell and get_equity_summary take for cash
CashSymbols == {"USD", "CASH"}
\* every symbol some part of the program takes for cash
AllCashSymbols == {"EUR", "USD", "CASH"}

\* the ledger and its caller
VARIABLES portfolio, journal, call, nSuccess, nDeposits, inputsPositive
\* the other parts of the program, each with a specification of its own:
\* two execute_buy calls run at once (race), the hype scanner (scanner), the
\* risk sizing (risk), the radar scan and the deep dive (app) and the
\* autoshutdown monitor (monitor)
VARIABLES race, scanner, risk, app, monitor

vars == <<portfolio, journal, call, nSuccess, nDeposits, inputsPositive,
          race, scanner, risk, app, monitor>>

\* the value of a part that does not run in the specification at hand
Off == "off"

\* ----------------------------------------------------------- the session
\* A SQLAlchemy session with autoflush off: queries read the committed
\* rows, an object already loaded is the same object on every later load
\* (identity), added and deleted objects wait for the commit.
NewSession == [identity |-> <<>>, added |-> <<>>, deleted |-> {}, trades |-> <<>>]

\* the session's object for a row a query returned
Load(sess, row) ==
  IF row.id \in DOMAIN sess.identity THEN sess.identity[row.id] ELSE row

\* an attribute assignment to a loaded object
Store(sess, obj) ==
  [sess EXCEPT !.identity = (obj.id :> obj) @@ sess.identity]

MaxId(db) == IF db = {} THEN 0 ELSE CHOOSE m \in {r.id : r \in db} : \A r \in db : r.id <= m

\* db.commit(): the unit of work writes the updates and the inserts (each
\* new row gets the next rowid), then the deletes; the journal rows follow
\* the ones already there
commit(db, jr, sess) ==
  LET updated == {Load(sess, r) : r \in db}
      inserted == {[sess.added[i] EXCEPT !.id = MaxId(db) + i] : i \in 1..Len(sess.added)}
      kept == {r \in updated \cup inserted : r.id \notin sess.deleted}
  IN [portfolio |-> kept, journal |-> jr \o sess.trades]

\* db.rollback(): nothing of the session is written
rollback_keeps_updates(db, jr, sess) ==
  [portfolio |-> {Load(sess, r) : r \in db}, journal |-> jr]
rollback(db, jr, sess) == [portfolio |-> db, journal |-> jr]

\* the rows a query on `portfolio` can give as .first(): the query has no
\* ORDER BY, so any matching row
first(rows) == IF rows = {} THEN {NoRow} ELSE rows

CashQuery(db) == {r \in db : r.ticker \in CashSymbols}
TickerQuery(db, ticker) == {r \in db : r.ticker = ticker}

Returns(result, state) ==
  [result |-> result, portfolio |-> state.portfolio, journal |-> state.journal]

\* ------------------------------------------------------------ execute_buy
\* 1. Check Cash: not (not cash_pos or cash_pos.quantity < cost_of_trade)
sufficient_funds_nocompare(cash_row, cost_of_trade) == cash_row # NoRow
sufficient_funds(cash_row, cost_of_trade) ==
  cash_row # NoRow /\ ~(cash_row.quantity < cost_of_trade)

\* Average up/down logic: the position after a further buy
average_up_unweighted(existing_pos, price, quantity) ==
  [existing_pos EXCEPT
     !.cost = FDiv(FAdd(existing_pos.cost, FInt(price)), FInt(2)),
     !.quantity = existing_pos.quantity + quantity]
average_up(existing_pos, price, quantity) ==
  LET total_cost == FAdd(FMul(existing_pos.cost, FInt(existing_pos.quantity)),
                         FInt(price * quantity))
      new_qty == existing_pos.quantity + quantity
  IN [existing_pos EXCEPT !.cost = FDiv(total_cost, FInt(new_qty)),
                          !.quantity = new_qty]

\* 3. Add Position: the existing row is re-averaged, else a new row is added
add_position_always_new(sess, ticker, price, quantity, existing_row) ==
  [sess EXCEPT !.added =
     Append(@, Position(0, ticker, FInt(price), quantity, "Open"))]
add_position(sess, ticker, price, quantity, existing_row) ==
  IF existing_row # NoRow
  THEN Store(sess, average_up(Load(sess, existing_row), price, quantity))
  ELSE [sess EXCEPT !.added =
          Append(@, Position(0, ticker, FInt(price), quantity, "Open"))]

\* 4. Log to Journal
log_buy_forgotten(sess, ticker, price, quantity) == sess
log_buy(sess, ticker, price, quantity) ==
  [sess EXCEPT !.trades =
     Append(@, Trade(ticker, "BUY", quantity, FInt(price), FInt(0), FInt(0), FInt(0)))]

\* cash_row and existing_row are what the two queries' .first() gave
execute_buy(db, jr, ticker, price, quantity, cash_row, existing_row, fault) ==
  IF quantity <= 0 THEN Returns(FALSE, [portfolio |-> db, journal |-> jr])
  ELSE
  LET cost_of_trade == price * quantity
      s0 == NewSession
      cash_pos == Load(s0, cash_row)
  IN
  IF ~sufficient_funds(cash_row, cost_of_trade)
  THEN Returns(FALSE, [portfolio |-> db, journal |-> jr])      \* db.close()
  ELSE
  LET \* 2. Deduct Cash
      s1 == Store(s0, [cash_pos EXCEPT !.quantity = @ - cost_of_trade])
      s2 == add_position(s1, ticker, price, quantity, existing_row)
      s3 == log_buy(s2, ticker, price, quantity)
  IN
  IF fault = "query" THEN Returns(FALSE, rollback(db, jr, s1))
  ELSE IF existing_row # NoRow /\ Load(s1, existing_row).quantity + quantity = 0
  THEN Returns(FALSE, rollback(db, jr, s1))      \* ZeroDivisionError
  ELSE IF fault = "commit" THEN Returns(FALSE, rollback(db, jr, s3))
  ELSE Returns(TRUE, commit(db, jr, s3))

\* ----------------------------------------------------------- execute_sell
\* quantity if quantity and quantity < pos.quantity else pos.quantity
qty_to_sell(quantity, held) ==
  IF quantity # <<>> /\ quantity[1] # 0 /\ quantity[1] < held
  THEN quantity[1] ELSE held

\* 3. Update Position: pos.quantity -= qty_to_sell, then delete or trim
update_position_never_deleted(sess, pos0, qty) ==
  Store(sess, [pos0 EXCEPT !.quantity = @ - qty, !.status = "Trimmed"])
update_position(sess, pos0, qty) ==
  LET left == pos0.quantity - qty IN
  IF left = 0
  THEN [Store(sess, [pos0 EXCEPT !.quantity = left])
          EXCEPT !.deleted = @ \cup {pos0.id}]
  ELSE Store(sess, [pos0 EXCEPT !.quantity = left, !.status = "Trimmed"])

\* 4. Add Cash: to the cash row, or to a new USD row if there is none
add_cash_subtracts(sess, cash_row, sale_proceeds) ==
  IF cash_row # NoRow
  THEN Store(sess, [Load(sess, cash_row) EXCEPT !.quantity = @ - sale_proceeds])
  ELSE [sess EXCEPT !.added =
          Append(@, Position(0, "USD", FInt(1), -sale_proceeds, "Liquid"))]
add_cash(sess, cash_row, sale_proceeds) ==
  IF cash_row # NoRow
  THEN Store(sess, [Load(sess, cash_row) EXCEPT !.quantity = @ + sale_proceeds])
  ELSE [sess EXCEPT !.added =
          Append(@, Position(0, "USD", FInt(1), sale_proceeds, "Liquid"))]

\* 2. Calculate PnL and 5. Log to Journal
log_sell_pnl_on_proceeds(sess, ticker, price, pos0, qty) ==
  LET sale_proceeds == price * qty
      action_type == IF pos0.quantity - qty = 0 THEN "SELL (Full)" ELSE "TRIM"
  IN [sess EXCEPT !.trades =
        Append(@, Trade(ticker, action_type, qty, pos0.cost, FInt(price),
                        FInt(0), round2(FInt(sale_proceeds))))]
log_sell(sess, ticker, price, pos0, qty) ==
  LET sale_proceeds == price * qty
      cost_basis == FMul(pos0.cost, FInt(qty))
      pnl_abs == FSub(FInt(sale_proceeds), cost_basis)
      pnl_pct == IF FPos(pos0.cost)
                 THEN FMul(FDiv(FSub(FInt(price), pos0.cost), pos0.cost), FInt(100))
                 ELSE FInt(0)
      action_type == IF pos0.quantity - qty = 0 THEN "SELL (Full)" ELSE "TRIM"
  IN [sess EXCEPT !.trades =
        Append(@, Trade(ticker, action_type, qty, pos0.cost, FInt(price),
                        round2(pnl_pct), round2(pnl_abs)))]

\* pos_row and cash_row are what the two queries' .first() gave
execute_sell(db, jr, ticker, price, quantity, pos_row, cash_row, fault) ==
  LET s0 == NewSession
      pos0 == Load(s0, pos_row)
  IN
  IF pos_row = NoRow \/ pos0.quantity <= 0
  THEN Returns(FALSE, [portfolio |-> db, journal |-> jr])      \* db.close()
  ELSE
  LET qty == qty_to_sell(quantity, pos0.quantity) IN
  IF qty <= 0 THEN Returns(FALSE, [portfolio |-> db, journal |-> jr])
  ELSE
  LET s1 == update_position(s0, pos0, qty)
      s2 == add_cash(s1, cash_row, price * qty)
      s3 == log_sell(s2, ticker, price, pos0, qty)
  IN
  IF fault = "query" THEN Returns(FALSE, rollback(db, jr, s1))
  ELSE IF fault = "commit" THEN Returns(FALSE, rollback(db, jr, s3))
  ELSE Returns(TRUE, commit(db, jr, s3))

\* ------------------------------------------------- buy_form: cash deposit
\* b_ticker == 'EUR': a direct write on its own connection, no journal row
deposit_cash(db, b_qty, row) ==
  IF row # NoRow
  THEN (db \ {row}) \cup {[row EXCEPT !.quantity = row.quantity + b_qty]}
  ELSE db \cup {Position(MaxId(db) + 1, "EUR", FInt(1), b_qty, "Liquid")}

\* ------------------------------------------------------ get_equity_summary
\* invested += p.cost * p.quantity
position_value_quantity_only(p) == FInt(p.quantity)
position_value(p) == FMul(p.cost, FInt(p.quantity))

\* cash += p.quantity
RECURSIVE SumQuantity(_)
SumQuantity(rows) ==
  IF rows = {} THEN 0
  ELSE LET r == CHOOSE x \in rows : TRUE IN r.quantity + SumQuantity(rows \ {r})

RECURSIVE SumValue(_)
SumValue(rows) ==
  IF rows = {} THEN FInt(0)
  ELSE LET r == CHOOSE x \in rows : TRUE
       IN FAdd(position_value(r), SumValue(rows \ {r}))

\* the loop over all positions: cash and invested before they are rounded
equity_totals(db) ==
  LET cash == FInt(SumQuantity({p \in db : p.ticker \in CashSymbols}))
      invested == SumValue({p \in db : p.ticker \notin CashSymbols
                                        /\ p.quantity > 0})
  IN [total_equity |-> FAdd(cash, invested), cash |-> cash,
      invested |-> invested]

\* reads the positions in a session of its own and writes nothing
get_equity_summary(db) ==
  LET t == equity_totals(db)
  IN [total_equity |-> round2(t.total_equity), cash |-> round2(t.cash),
      invested |-> round2(t.invested)]

\* ----------------------------------------------------------------- init_db
\* seeds the cash position if the portfolio is entirely empty
init_db(db) ==
  IF Cardinality(db) = 0
  THEN {Position(1, "EUR", FInt(1), SeedCash, "Liquid")}
  ELSE db

\* ------------------------------------------------------------ the program
\* `call` is the handler call of the current script run, with the rows its
\* queries gave, what it returned and the tables as they were before it;
\* op = "none" between runs.  nSuccess counts the execute_buy and
\* execute_sell calls that returned True, nDeposits the deposits;
\* inputsPositive says that every execute_buy and execute_sell call so far
\* had price > 0 and a quantity > 0 (or, for a sell, none).
NoCall ==
  [op |-> "none", ticker |-> "", price |-> 0, quantity |-> <<>>,
   cash_row |-> NoRow, pos_row |-> NoRow, result |-> FALSE,
   portfolio |-> {}, journal |-> <<>>]

LedgerInit ==
  /\ portfolio = init_db({})
  /\ journal = <<>>
  /\ call = NoCall
  /\ nSuccess = 0
  /\ nDeposits = 0
  /\ inputsPositive = TRUE

Init ==
  /\ LedgerInit
  /\ race = Off /\ scanner = Off /\ risk = Off /\ app = Off /\ monitor = Off

\* app.py line 409 / 269: pm.execute_buy(...)
ExecuteBuy ==
  /\ call.op = "none"
  /\ nSuccess + nDeposits < MaxOps
  /\ \E ticker \in Tickers, price \in Prices, quantity \in BuyQuantities, fault \in Faults :
       \E cash_row \in first(CashQuery(portfolio)),
          existing_row \in first(TickerQuery(portfolio, ticker)) :
         LET out == execute_buy(portfolio, journal, ticker, price, quantity,
                                cash_row, existing_row, fault)
         IN /\ portfolio' = out.portfolio
            /\ journal' = out.journal
            /\ call' = [op |-> "execute_buy", ticker |-> ticker, price |-> price,
                        quantity |-> <<quantity>>,
                        cash_row |-> cash_row, pos_row |-> existing_row,
                        result |-> out.result,
                        portfolio |-> portfolio, journal |-> journal]
            /\ nSuccess' = IF out.result THEN nSuccess + 1 ELSE nSuccess
            /\ inputsPositive' = (inputsPositive /\ price > 0 /\ quantity > 0)
            /\ UNCHANGED <<nDeposits, race, scanner, risk, app, monitor>>

\* app.py line 423: pm.execute_sell(...)
ExecuteSell ==
  /\ call.op = "none"
  /\ nSuccess + nDeposits < MaxOps
  /\ \E ticker \in Tickers, price \in Prices, quantity \in SellQuantities, fault \in Faults :
       \E pos_row \in first(TickerQuery(portfolio, ticker)),
          cash_row \in first(CashQuery(portfolio)) :
         LET out == execute_sell(portfolio, journal, ticker, price, quantity,
                                 pos_row, cash_row, fault)
         IN /\ portfolio' = out.portfolio
            /\ journal' = out.journal
            /\ call' = [op |-> "execute_sell", ticker |-> ticker, price |-> price,
                        quantity |-> quantity,
                        cash_row |-> cash_row, pos_row |-> pos_row,
                        result |-> out.result,
                        portfolio |-> portfolio, journal |-> journal]
            /\ nSuccess' = IF out.result THEN nSuccess + 1 ELSE nSuccess
            /\ inputsPositive' = (inputsPositive /\ price > 0
                                   /\ (quantity = <<>> \/ quantity[1] > 0))
            /\ UNCHANGED <<nDeposits, race, scanner, risk, app, monitor>>

\* app.py lines 392-405: the buy form with ticker EUR
DepositCash ==
  /\ call.op = "none"
  /\ nSuccess + nDeposits < MaxOps
  /\ \E b_qty \in DepositQuantities :
       \E row \in first(TickerQuery(portfolio, "EUR")) :
         /\ portfolio' = deposit_cash(portfolio, b_qty, row)
         /\ call' = [NoCall EXCEPT !.op = "deposit", !.ticker = "EUR",
                       !.quantity = <<b_qty>>, !.pos_row = row, !.result = TRUE,
                       !.portfolio = portfolio, !.journal = journal]
         /\ nDeposits' = nDeposits + 1
         /\ UNCHANGED <<journal, nSuccess, inputsPositive>>
         /\ UNCHANGED <<race, scanner, risk, app, monitor>>

\* app.py line 346: pm.get_equity_summary(); what it returned is
\* get_equity_summary(call.portfolio)
EquitySummary ==
  /\ call.op = "none"
  /\ call' = [NoCall EXCEPT !.op = "get_equity_summary", !.result = TRUE,
                !.portfolio = portfolio, !.journal = journal]
  /\ UNCHANGED <<portfolio, journal, nSuccess, nDeposits, inputsPositive>>
  /\ UNCHANGED <<race, scanner, risk, app, monitor>>

\* the script runs again from the top for the next interaction: init_db()
Rerun ==
  /\ call.op # "none"
  /\ portfolio' = init_db(portfolio)
  /\ call' = NoCall
  /\ UNCHANGED <<journal, nSuccess, nDeposits, inputsPositive>>
  /\ UNCHANGED <<race, scanner, risk, app, monitor>>

Next == ExecuteBuy \/ ExecuteSell \/ DepositCash \/ EquitySummary \/ Rerun

Spec == Init /\ [][Next]_vars

\* ------------------------------------------------------------- the claims
\* the cash balance as the ledger reads it: the quantity of the USD/CASH rows
CashBalance(db) == SumQuantity(CashQuery(db))

IsBuy == call.op = "execute_buy"
IsSell == call.op = "execute_sell"
CostOfCall == call.price * call.quantity[1]
LastTrade == journal[Len(journal)]
RowsOf(db, ticker) == {r \in db : r.ticker = ticker}
RowById(db, id) == CHOOSE r \in db : r.id = id
IsPrefix(a, b) == Len(a) <= Len(b) /\ SubSeq(b, 1, Len(a)) = a

\* C1: execute_buy called when the cash row it reads holds less than
\* price * quantity returns failure and leaves portfolio and journal as they
\* were before the call.
C1_InsufficientCashNoChange ==
  (IsBuy /\ call.cash_row.quantity < CostOfCall)
    => (~call.result /\ portfolio = call.portfolio /\ journal = call.journal)

C1_Witness ==
  /\ IsBuy
  /\ call.cash_row # NoRow
  /\ call.quantity[1] > 0
  /\ call.cash_row.quantity < CostOfCall
  /\ ~call.result

\* C2 (as claimed): on the ledger init_db seeded, execute_buy of a non-cash
\* ticker with price > 0, quantity > 0 and price * quantity within the seeded
\* balance succeeds, debits the cash and leaves a Position with cost = price
\* and that quantity.
C2_SeededBuySucceeds ==
  (/\ IsBuy
   /\ call.portfolio = init_db({})
   /\ call.ticker \notin AllCashSymbols
   /\ call.price > 0
   /\ call.quantity[1] > 0
   /\ CostOfCall <= SeedCash)
    => /\ call.result
       /\ SumQuantity({r \in portfolio : r.ticker \in AllCashSymbols})
            = SeedCash - CostOfCall
       /\ \E r \in portfolio : /\ r.ticker = call.ticker
                               /\ r.cost = FInt(call.price)
                               /\ r.quantity = call.quantity[1]

\* C3: while every execute_buy and execute_sell call had price > 0 and
\* quantity > 0, no cash row (USD, CASH or EUR) holds a negative balance.
C3_CashNeverNegative ==
  inputsPositive =>
    \A r \in portfolio : r.ticker \in AllCashSymbols => r.quantity >= 0

C3_Witness ==
  /\ inputsPositive
  /\ IsBuy
  /\ call.result
  /\ CostOfCall > 0
  /\ CashBalance(portfolio) = 0

\* the weighted-average cost (c*q + p*n) / (q + n)
WeightedCost(c, q, p, n) == FDiv(FAdd(FMul(c, FInt(q)), FInt(p * n)), FInt(q + n))

\* the call bought more of a position that existed: its row now holds
\* quantity q + n at cost (c*q + p*n) / (q + n), and it is the only one
BuyAveraged ==
  LET c == call.pos_row.cost
      q == call.pos_row.quantity
      p == call.price
      n == call.quantity[1]
  IN /\ Cardinality(RowsOf(portfolio, call.ticker)) = 1
     /\ \A r \in RowsOf(portfolio, call.ticker) :
          r.quantity = q + n /\ r.cost = WeightedCost(c, q, p, n)

\* the call was the second of two successive buys of a ticker that was new
\* at the first: no earlier trade names it and the ledger never seeds it
SecondBuyOfNewTicker ==
  /\ IsBuy /\ call.result
  /\ call.ticker \notin AllCashSymbols
  /\ Len(call.journal) >= 1
  /\ call.journal[Len(call.journal)].ticker = call.ticker
  /\ call.journal[Len(call.journal)].action = "BUY"
  /\ \A i \in 1..(Len(call.journal) - 1) : call.journal[i].ticker # call.ticker

TwoBuysAveraged ==
  LET first_buy == call.journal[Len(call.journal)]
      P1 == first_buy.entry_price
      Q1 == first_buy.quantity
      P2 == call.price
      Q2 == call.quantity[1]
  IN \A r \in RowsOf(portfolio, call.ticker) :
       /\ r.quantity = Q1 + Q2
       /\ r.cost = FDiv(FAdd(FMul(P1, FInt(Q1)), FInt(P2 * Q2)), FInt(Q1 + Q2))

\* C4 (as claimed): a successful execute_buy of any ticker that already has
\* a Position leaves one Position with quantity q + n and cost
\* (c*q + p*n) / (q + n).
C4_BuyAveragesAnyTicker ==
  (IsBuy /\ call.result /\ call.pos_row # NoRow) => BuyAveraged

\* C4 (amended): a successful execute_buy of a ticker other than the cash
\* symbols USD and CASH that already has a Position leaves one Position with
\* quantity q + n and cost (c*q + p*n) / (q + n); two successive buys P1,Q1
\* then P2,Q2 of a new such ticker yield cost (P1*Q1 + P2*Q2) / (Q1 + Q2).
C4_BuyAveragesNonCash ==
  /\ (IsBuy /\ call.result /\ call.pos_row # NoRow /\ call.ticker \notin CashSymbols)
       => BuyAveraged
  /\ SecondBuyOfNewTicker => TwoBuysAveraged

C4_Witness ==
  /\ SecondBuyOfNewTicker
  /\ call.pos_row # NoRow
  /\ \E r \in RowsOf(portfolio, call.ticker) : r.cost[2] # 1

\* the call sold all that was held of its ticker
IsFullSell ==
  /\ IsSell /\ call.result
  /\ LastTrade.quantity = call.pos_row.quantity

FullSellRemovedAndCredited ==
  /\ RowsOf(portfolio, call.ticker) = {}
  /\ CashBalance(portfolio)
       = CashBalance(call.portfolio) + call.price * call.pos_row.quantity

Min(a, b) == IF a < b THEN a ELSE b

\* C6 (as claimed): execute_sell with an explicit quantity q on a position
\* holding h > 0 sells min(q, h), and sells all of it only if q >= h.
C6_SellsMinOfAskedAndHeld ==
  (IsSell /\ call.result /\ call.quantity # <<>> /\ call.pos_row.quantity > 0)
    => /\ LastTrade.quantity = Min(call.quantity[1], call.pos_row.quantity)
       /\ LastTrade.quantity = call.pos_row.quantity
            => call.quantity[1] >= call.pos_row.quantity

\* the journal grew by the one row of the call
OneTradeLogged ==
  /\ Len(journal) = Len(call.journal) + 1
  /\ SubSeq(journal, 1, Len(call.journal)) = call.journal
  /\ LastTrade.ticker = call.ticker

\* what a successful execute_buy persists: the debit of the cash row it read
\* and the bought quantity on the ticker's row (one row when the ticker is
\* the cash row itself)
BuyPersisted ==
  LET n == call.quantity[1]
      same == call.pos_row # NoRow /\ call.pos_row.id = call.cash_row.id
      debited == call.cash_row.quantity - CostOfCall
  IN /\ OneTradeLogged
     /\ LastTrade.action = "BUY"
     /\ \E r \in portfolio :
          /\ r.id = call.cash_row.id
          /\ r.quantity = IF same THEN debited + n ELSE debited
     /\ IF call.pos_row = NoRow
        THEN \E r \in portfolio :
               r.ticker = call.ticker /\ r.quantity = n /\ r \notin call.portfolio
        ELSE same \/ \E r \in portfolio :
               r.id = call.pos_row.id /\ r.quantity = call.pos_row.quantity + n

\* what a successful execute_sell persists: the sold quantity off the
\* position (the row gone when nothing is left) and the proceeds on the cash
\* row, or on a new USD row when there was no cash row
SellPersisted ==
  LET sold == LastTrade.quantity
      left == call.pos_row.quantity - sold
      proceeds == call.price * sold
      same == call.cash_row # NoRow /\ call.cash_row.id = call.pos_row.id
  IN /\ OneTradeLogged
     /\ LastTrade.action \in {"SELL (Full)", "TRIM"}
     /\ IF left = 0
        THEN \A r \in portfolio : r.id # call.pos_row.id
        ELSE \E r \in portfolio :
               /\ r.id = call.pos_row.id
               /\ r.quantity = IF same THEN left + proceeds ELSE left
     /\ IF call.cash_row = NoRow
        THEN \E r \in portfolio :
               r.ticker = "USD" /\ r.quantity = proceeds /\ r \notin call.portfolio
        ELSE same \/ \E r \in portfolio :
               r.id = call.cash_row.id /\ r.quantity = call.cash_row.quantity + proceeds

C8_JournalAppendOnly ==
  /\ [](Len(journal) = nSuccess)
  /\ [][/\ IsPrefix(journal, journal')
        /\ Len(journal') = Len(journal)
             + (IF call'.op \in {"execute_buy", "execute_sell"} /\ call'.result
                THEN 1 ELSE 0)]_vars

C8_Witness ==
  /\ IsSell
  /\ ~call.result
  /\ Len(journal) >= 2
  /\ journal[1].action = "TRIM"
  /\ journal[2].action = "BUY"

\* C9: the portfolio holds at most one row per ticker.
C9_OneRowPerTicker ==
  \A r1, r2 \in portfolio : r1.ticker = r2.ticker => r1 = r2

\* a buy of a ticker that had a row, and a sale that added the USD row
C9_Witness ==
  /\ IsBuy
  /\ call.result
  /\ call.pos_row # NoRow
  /\ Cardinality(portfolio) >= 3

\* C10 (as claimed): the portfolio holds exactly one row whose ticker is a
\* cash symbol (USD, CASH or EUR).
C10_ExactlyOneCashRow ==
  Cardinality({r \in portfolio : r.ticker \in AllCashSymbols}) = 1

\* ---------------------------------------------------- C11: the sell record
\* the position the call sold from, as it was before the call
SoldFrom == call.pos_row
SoldQty == qty_to_sell(call.quantity, SoldFrom.quantity)

IsSummary == call.op = "get_equity_summary"

\* C12 (as claimed): get_equity_summary changes no ledger state and returns
\* cash = the sum of quantity over all cash rows, the row seeded by init_db
\* included, invested = the sum of cost * quantity over all other rows, and
\* total_equity = cash + invested.
C12_SummaryCountsSeededCash ==
  IsSummary =>
    LET db == call.portfolio
        seeded == {p \in db : p.ticker = "EUR"}
        cashRows == CashQuery(db) \cup seeded
        cash == FInt(SumQuantity(cashRows))
        invested == SumValue(db \ cashRows)
        got == get_equity_summary(db)
    IN /\ portfolio = call.portfolio /\ journal = call.journal
       /\ got.cash = round2(cash)
       /\ got.invested = round2(invested)
       /\ got.total_equity = round2(FAdd(cash, invested))

\* ------------------------------------------- C13: execute_buy preconditions
\* C13 (as claimed): execute_buy with price <= 0 or quantity <= 0 returns
\* failure and changes neither cash, positions nor the journal.
C13_BuyRejectsNonPositive ==
  (IsBuy /\ (call.price <= 0 \/ call.quantity[1] <= 0)) =>
    /\ ~call.result
    /\ portfolio = call.portfolio
    /\ journal = call.journal

\* ------------------------------------------- C19: equity under cost basis
\* total_equity before get_equity_summary rounds it
TotalEquity(db) == equity_totals(db).total_equity

IsExit(t) == t.action \in {"SELL (Full)", "TRIM"}

\* (exit_price - entry_price) * quantity of a sell or trim record
RecordPnl(t) == FMul(FSub(t.exit_price, t.entry_price), FInt(t.quantity))

RECURSIVE RealizedPnl(_)
RealizedPnl(jr) ==
  IF jr = <<>> THEN FInt(0)
  ELSE LET rest == RealizedPnl(SubSeq(jr, 1, Len(jr) - 1))
           t == jr[Len(jr)]
       IN IF IsExit(t) THEN FAdd(rest, RecordPnl(t)) ELSE rest

BuyKeepsEquity == TotalEquity(portfolio) = TotalEquity(call.portfolio)
SellAddsPnl ==
  TotalEquity(portfolio) = FAdd(TotalEquity(call.portfolio), RecordPnl(LastTrade))
EquityIsSeedPlusPnl ==
  TotalEquity(portfolio) = FAdd(FInt(SeedCash), RealizedPnl(journal))

\* C19 (as claimed): total_equity is unchanged by every successful
\* execute_buy, changes by exactly the realized pnl on every successful
\* execute_sell, and so always equals the seeded balance plus the sum of the
\* pnl of all sell and trim records (before rounding).
C19_EquityAnyTicker ==
  /\ (IsBuy /\ call.result) => BuyKeepsEquity
  /\ (IsSell /\ call.result) => SellAddsPnl
  /\ EquityIsSeedPlusPnl

\* no trade so far was in a symbol the ledger takes for cash, and no deposit
OnlyNonCashTrades ==
  /\ nDeposits = 0
  /\ \A i \in 1..Len(journal) : journal[i].ticker \notin CashSymbols

\* C19 (amended): total_equity before rounding is unchanged by every
\* successful execute_buy of a ticker other than USD and CASH, changes by
\* exactly (p - c) * s on every successful execute_sell of such a ticker,
\* and after any sequence of such buys and sells, without deposits, equals
\* the seeded balance plus the sum of (exit - entry) * quantity over all
\* sell and trim records.
C19_EquityNonCash ==
  /\ (IsBuy /\ call.result /\ call.ticker \notin CashSymbols) => BuyKeepsEquity
  /\ (IsSell /\ call.result /\ call.ticker \notin CashSymbols) => SellAddsPnl
  /\ OnlyNonCashTrades => EquityIsSeedPlusPnl

\* a profitable sale after a sale and a buy, none in a cash symbol
C19_Witness ==
  /\ IsSell /\ call.result /\ call.ticker \notin CashSymbols
  /\ OnlyNonCashTrades
  /\ Len(journal) = 3
  /\ journal[2].action = "BUY"
  /\ FPos(RecordPnl(LastTrade))
  /\ TotalEquity(portfolio) # FInt(SeedCash)

\* ------------------------------------ C14: two execute_buy calls at once
\* Two threads or processes each run execute_buy with a session of their
\* own on the one store.  No lock is taken in the code; the store's own
\* write lock makes each commit atomic, and a query reads the rows committed
\* at the time it runs (pysqlite begins a transaction only at the first
\* write, which with autoflush off is the flush inside commit).
RaceCash == 3
Procs == {1, 2}
RaceTickers == {"AAPL", "EUR"}
RacePrices == {1, 2}
RaceQuantities == {1, 2}

\* the ledger the two calls start on: the seeded one after a trim of RaceCash
\* EUR at price 1, which made the USD cash row
RaceStart ==
  LET seeded == init_db({})
      row == CHOOSE r \in seeded : TRUE
  IN execute_sell(seeded, <<>>, "EUR", 1, <<RaceCash>>, row, NoRow, "none")

NoProc ==
  [pc |-> "idle", ticker |-> "", price |-> 0, quantity |-> 0,
   cash_row |-> NoRow, sess |-> NewSession, result |-> FALSE]

RaceInit ==
  /\ LedgerInit
  /\ race = [portfolio |-> RaceStart.portfolio, journal |-> RaceStart.journal,
             proc |-> [i \in Procs |-> NoProc]]
  /\ scanner = Off /\ risk = Off /\ app = Off /\ monitor = Off

RaceStep(i, next) ==
  /\ race' = [race EXCEPT !.proc[i] = next]
  /\ UNCHANGED <<portfolio, journal, call, nSuccess, nDeposits, inputsPositive>>
  /\ UNCHANGED <<scanner, risk, app, monitor>>

\* execute_buy(ticker, price, quantity) is called: db = SessionLocal()
RaceCall(i) ==
  /\ race.proc[i].pc = "idle"
  /\ \E ticker \in RaceTickers, price \in RacePrices, quantity \in RaceQuantities :
       RaceStep(i, [NoProc EXCEPT !.pc = "query_cash", !.ticker = ticker,
                                  !.price = price, !.quantity = quantity])

\* line 44: cash_pos = db.query(Position).filter(...).first()
RaceQueryCash(i) ==
  /\ race.proc[i].pc = "query_cash"
  /\ \E cash_row \in first(CashQuery(race.portfolio)) :
       RaceStep(i, [race.proc[i] EXCEPT !.pc = "deduct_cash", !.cash_row = cash_row])

\* lines 45-51: the funds test, then cash_pos.quantity -= cost_of_trade
RaceDeductCash(i) ==
  LET me == race.proc[i]
      cost_of_trade == me.price * me.quantity
      cash_pos == Load(me.sess, me.cash_row)
  IN /\ me.pc = "deduct_cash"
     /\ IF ~sufficient_funds(me.cash_row, cost_of_trade)
        THEN RaceStep(i, [me EXCEPT !.pc = "done", !.result = FALSE])
        ELSE RaceStep(i, [me EXCEPT !.pc = "add_position",
               !.sess = Store(me.sess, [cash_pos EXCEPT !.quantity = @ - cost_of_trade])])

\* lines 54-70: the query for the ticker's row, the position, the BUY record
RaceAddPosition(i) ==
  LET me == race.proc[i] IN
  /\ me.pc = "add_position"
  /\ \E existing_row \in first(TickerQuery(race.portfolio, me.ticker)) :
       RaceStep(i, [me EXCEPT !.pc = "commit",
         !.sess = log_buy(add_position(me.sess, me.ticker, me.price, me.quantity,
                                       existing_row),
                          me.ticker, me.price, me.quantity)])

\* line 72: db.commit() writes the session's rows over the committed ones
RaceCommit(i) ==
  LET me == race.proc[i]
      out == commit(race.portfolio, race.journal, me.sess)
  IN /\ me.pc = "commit"
     /\ race' = [race EXCEPT !.portfolio = out.portfolio, !.journal = out.journal,
                             !.proc[i] = [me EXCEPT !.pc = "done", !.result = TRUE]]
     /\ UNCHANGED <<portfolio, journal, call, nSuccess, nDeposits, inputsPositive>>
     /\ UNCHANGED <<scanner, risk, app, monitor>>

RaceNext ==
  \E i \in Procs : \/ RaceCall(i) \/ RaceQueryCash(i) \/ RaceDeductCash(i)
                    \/ RaceAddPosition(i) \/ RaceCommit(i)

SpecRace == RaceInit /\ [][RaceNext]_vars

\* the ledger after the call of process a and then the call of process b,
\* each run alone from start to end
SerialLedger(a, b) ==
  LET buy(led, i) ==
        LET me == race.proc[i]
            cash_row == CHOOSE r \in first(CashQuery(led.portfolio)) : TRUE
            existing_row == CHOOSE r \in first(TickerQuery(led.portfolio, me.ticker)) : TRUE
        IN execute_buy(led.portfolio, led.journal, me.ticker, me.price,
                       me.quantity, cash_row, existing_row, "none")
      after == buy(buy(RaceStart, a), b)
  IN [portfolio |-> after.portfolio, journal |-> after.journal]

BothDone == \A i \in Procs : race.proc[i].pc = "done"

\* C14 (as claimed): when two execute_buy calls, each with its own session,
\* are interleaved at statement granularity, the final ledger equals that of
\* some serial order of the two calls: the two never spend more than the
\* available cash and no cash update is lost.
C14_RaceIsSerializable ==
  BothDone =>
    /\ [portfolio |-> race.portfolio, journal |-> race.journal]
         \in {SerialLedger(1, 2), SerialLedger(2, 1)}
    /\ CashBalance(race.portfolio) >= 0

\* ------------------------------------------------------- the hype scanner
FLeq(a, b) == a[1] * b[2] <= b[1] * a[2]
FMax(a, b) == IF FLeq(a, b) THEN b ELSE a

\* datetime.now(tz): a date (days from the first day), an hour and a minute
MaxDays == 1
Time(date, hour, minute) == [date |-> date, hour |-> hour, minute |-> minute]
LastCandleDates == {0, 1}

\* minutes from 9:30
elapsed_mins(now) == (now.hour * 60 + now.minute) - (9 * 60 + 30)

\* the weight with the third segment starting at 0.40: a jump at 90 minutes
get_tod_weight_jump(last_candle_date, now) ==
  IF last_candle_date < now.date THEN FInt(1)
  ELSE IF now.hour < 9 \/ (now.hour = 9 /\ now.minute < 30) THEN FInt(1)
  ELSE IF now.hour >= 16 THEN FInt(1)
  ELSE LET e == elapsed_mins(now) IN
    IF e <= 30 THEN FMax(Frac(1, 100), FMul(Frac(e, 30), Frac(20, 100)))
    ELSE IF e <= 90 THEN FAdd(Frac(20, 100), FMul(Frac(e - 30, 60), Frac(15, 100)))
    ELSE IF e <= 330 THEN FAdd(Frac(40, 100), FMul(Frac(e - 90, 240), Frac(35, 100)))
    ELSE FAdd(Frac(75, 100), FMul(Frac(e - 330, 60), Frac(25, 100)))

\* HypeScanner.get_tod_weight: the expected fraction of the day's volume
get_tod_weight(last_candle_date, now) ==
  IF last_candle_date < now.date THEN FInt(1)
  ELSE IF now.hour < 9 \/ (now.hour = 9 /\ now.minute < 30) THEN FInt(1)
  ELSE IF now.hour >= 16 THEN FInt(1)
  ELSE LET e == elapsed_mins(now) IN
    IF e <= 30 THEN FMax(Frac(1, 100), FMul(Frac(e, 30), Frac(20, 100)))
    ELSE IF e <= 90 THEN FAdd(Frac(20, 100), FMul(Frac(e - 30, 60), Frac(15, 100)))
    ELSE IF e <= 330 THEN FAdd(Frac(35, 100), FMul(Frac(e - 90, 240), Frac(40, 100)))
    ELSE FAdd(Frac(75, 100), FMul(Frac(e - 330, 60), Frac(25, 100)))

\* the clock one minute later
NextMinute(now) ==
  IF now.minute < 59 THEN [now EXCEPT !.minute = @ + 1]
  ELSE IF now.hour < 23 THEN [now EXCEPT !.hour = @ + 1, !.minute = 0]
  ELSE Time(now.date + 1, 0, 0)

\* A caller that asks for the weight of the same last candle every minute:
\* tod_weight is what the call at `now` returned, before what the call one
\* minute earlier returned (tod_weight itself at the start).
TodInit ==
  /\ LedgerInit
  /\ \E d \in LastCandleDates :
       scanner = [last_candle_date |-> d, now |-> Time(0, 0, 0),
                  tod_weight |-> get_tod_weight(d, Time(0, 0, 0)),
                  before |-> get_tod_weight(d, Time(0, 0, 0))]
  /\ race = Off /\ risk = Off /\ app = Off /\ monitor = Off

GetTodWeight ==
  /\ NextMinute(scanner.now).date <= MaxDays
  /\ scanner' = [scanner EXCEPT
                   !.now = NextMinute(@),
                   !.before = scanner.tod_weight,
                   !.tod_weight = get_tod_weight(scanner.last_candle_date,
                                                 NextMinute(scanner.now))]
  /\ UNCHANGED <<portfolio, journal, call, nSuccess, nDeposits, inputsPositive>>
  /\ UNCHANGED <<race, risk, app, monitor>>

SpecTod == TodInit /\ [][GetTodWeight]_vars

\* the last candle is of today (or later) and the clock is in the session
Elapsed == elapsed_mins(scanner.now)
CandleOfToday == ~(scanner.last_candle_date < scanner.now.date)

\* C16: the weight is always in (0, 1]; from session open (0 minutes) to
\* session close (390) it never decreases from one minute to the next and
\* rises by at most 1/150 a minute, so there is no jump, with the values
\* 0.20, 0.35 and 0.75 at the boundaries 30, 90 and 330; and it is 1.0
\* whenever the last bar is dated before today or the time is before
\* session open or at or after session close.
C16_TodWeight ==
  LET w == scanner.tod_weight IN
  /\ FPos(w) /\ FLeq(w, FInt(1))
  /\ (CandleOfToday /\ Elapsed \in 1..390) =>
       /\ FLeq(scanner.before, w)
       /\ FLeq(FSub(w, scanner.before), Frac(1, 150))
  /\ (CandleOfToday /\ Elapsed = 30) => w = Frac(20, 100)
  /\ (CandleOfToday /\ Elapsed = 90) => w = Frac(35, 100)
  /\ (CandleOfToday /\ Elapsed = 330) => w = Frac(75, 100)
  /\ (~CandleOfToday \/ Elapsed < 0 \/ Elapsed >= 390) => w = FInt(1)

\* one minute past the second boundary the weight has risen, by a little
C16_Witness ==
  /\ CandleOfToday /\ Elapsed = 91
  /\ scanner.before = Frac(35, 100)
  /\ scanner.tod_weight # scanner.before

\* ------------------------------------------------------ get_hype_metrics
MaxBars == 22
Closes == {0, 1, 2}
Volumes == {0, 1, 2}
BaseVolumes == {0, 2}
TimesOfCall == {Time(1, 8, 0), Time(1, 9, 45), Time(1, 12, 0), Time(1, 16, 0)}
HistoryFaults == {"none", "history"}

\* stock.history(period="1mo"): n daily bars; the last bar and the close of
\* the bar five before it are free, the other closes are 1 and the other
\* volumes alternate between two values
History(n, last, close_5d_ago, v_odd, v_even) ==
  [i \in 1..n |->
     IF i = n THEN last
     ELSE [Close |-> IF i = n - 5 THEN close_5d_ago ELSE 1,
           Volume |-> IF i % 2 = 1 THEN v_odd ELSE v_even]]

None == [kind |-> "None"]
NotCalled == [kind |-> "not called"]

RECURSIVE SumVolume(_)
SumVolume(bars) ==
  IF bars = <<>> THEN 0 ELSE bars[1].Volume + SumVolume(Tail(bars))

\* hist['Volume'].iloc[:-1].tail(20).mean()
avg_volume(hist) ==
  LET prev == SubSeq(hist, 1, Len(hist) - 1)
      window == SubSeq(prev, IF Len(prev) > 20 THEN Len(prev) - 19 ELSE 1, Len(prev))
  IN Frac(SumVolume(window), Len(window))

\* int(x) of a fraction that is not negative
FTrunc(x) == x[1] \div x[2]

\* HypeScanner.get_hype_metrics; fault = "history" is stock.history raising,
\* and a division of floats by 0.0 raises ZeroDivisionError: both end in the
\* except clause, which returns None
get_hype_metrics(hist, last_candle_date, now, fault) ==
  IF fault = "history" THEN None
  ELSE IF Len(hist) < 6 THEN None
  ELSE
  LET current_price == FInt(hist[Len(hist)].Close)
      price_5d_ago == FInt(hist[Len(hist) - 5].Close)
      current_vol == FInt(hist[Len(hist)].Volume)
      avg_vol == avg_volume(hist)
  IN
  IF price_5d_ago[1] = 0 THEN None
  ELSE IF avg_vol[1] = 0 THEN None
  ELSE
  LET roc_5d == FMul(FDiv(FSub(current_price, price_5d_ago), price_5d_ago), FInt(100))
      tod_weight == get_tod_weight(last_candle_date, now)
      expected_vol_so_far == FMul(avg_vol, tod_weight)
      rvol == IF FPos(expected_vol_so_far)
              THEN FDiv(current_vol, expected_vol_so_far) ELSE FInt(0)
  IN [kind |-> "metrics", Price |-> round2(current_price), RVOL |-> round2(rvol),
      ROC_5_Days |-> round2(roc_5d), Current_Volume |-> FTrunc(current_vol),
      Expected_Volume |-> FTrunc(expected_vol_so_far)]

MetricsInit ==
  /\ LedgerInit
  /\ \E n \in 0..MaxBars, c \in Closes, v \in Volumes, close_5d_ago \in Closes,
        v_odd \in BaseVolumes, v_even \in BaseVolumes,
        d \in LastCandleDates, now \in TimesOfCall, fault \in HistoryFaults :
       scanner = [hist |-> History(n, [Close |-> c, Volume |-> v], close_5d_ago,
                                   v_odd, v_even),
                  last_candle_date |-> d, now |-> now, fault |-> fault,
                  metrics |-> NotCalled]
  /\ race = Off /\ risk = Off /\ app = Off /\ monitor = Off

GetHypeMetrics ==
  /\ scanner.metrics = NotCalled
  /\ scanner' = [scanner EXCEPT !.metrics =
                   get_hype_metrics(scanner.hist, scanner.last_candle_date,
                                    scanner.now, scanner.fault)]
  /\ UNCHANGED <<portfolio, journal, call, nSuccess, nDeposits, inputsPositive>>
  /\ UNCHANGED <<race, risk, app, monitor>>

SpecMetrics == MetricsInit /\ [][GetHypeMetrics]_vars

\* C15 (as claimed): for every bar series with fewer than 21 bars
\* get_hype_metrics returns None, never a metrics record.
C15_NoDataBelow21Bars ==
  (scanner.metrics # NotCalled /\ Len(scanner.hist) < 21)
    => scanner.metrics = None

\* --------------------------------------------------- the risk simulator
MaxRiskBars == 3
BarLevels == 1..3
FxRates == {Frac(1, 1), Frac(9, 10)}
AccountSizes == {100, 1000}
RiskPcts == {Frac(1, 1), Frac(5, 2)}

\* a daily bar of yf.Ticker(...).history(): Low <= Close <= High
Bars ==
  {b \in [High : BarLevels, Low : BarLevels, Close : BarLevels] :
     b.Low <= b.Close /\ b.Close <= b.High}

RECURSIVE SumRange(_)
SumRange(stock) ==
  IF stock = <<>> THEN 0
  ELSE (stock[1].High - stock[1].Low) + SumRange(Tail(stock))

\* the button "Calculate Exit & Sizing": the values it computes
risk_sizing(stock, fx_rate, acc_size, risk_pct) ==
  LET price_usd == FInt(stock[Len(stock)].Close)
      atr_usd == Frac(SumRange(stock), Len(stock))
      price_eur == FMul(price_usd, fx_rate)
      atr_eur == FMul(atr_usd, fx_rate)
      stop_eur == FSub(price_eur, FMul(atr_eur, FInt(2)))
      max_loss_eur == FMul(FInt(acc_size), FDiv(risk_pct, FInt(100)))
      risk_per_share == FSub(price_eur, stop_eur)
      shares == IF FPos(risk_per_share)
                THEN FTrunc(FDiv(max_loss_eur, risk_per_share)) ELSE 0
  IN [atr_eur |-> atr_eur, stop |-> stop_eur,
      price_eur |-> round2(price_eur), shares |-> shares,
      stop_eur |-> round2(stop_eur), max_loss |-> max_loss_eur,
      fx_rate |-> fx_rate, price_usd |-> round2(price_usd)]

NoCalc == [shares |-> -1]

RiskInit ==
  /\ LedgerInit
  /\ risk = [stock |-> <<>>, last_calc |-> NoCalc]
  /\ race = Off /\ scanner = Off /\ app = Off /\ monitor = Off

\* the history the next click will get has one more bar
NextBar ==
  /\ Len(risk.stock) < MaxRiskBars
  /\ \E b \in Bars : risk' = [stock |-> Append(risk.stock, b), last_calc |-> NoCalc]
  /\ UNCHANGED <<portfolio, journal, call, nSuccess, nDeposits, inputsPositive>>
  /\ UNCHANGED <<race, scanner, app, monitor>>

\* app.py lines 234-253
CalculateSizing ==
  /\ Len(risk.stock) > 0
  /\ risk.last_calc = NoCalc
  /\ \E fx_rate \in FxRates, acc_size \in AccountSizes, risk_pct \in RiskPcts :
       risk' = [risk EXCEPT !.last_calc =
                  risk_sizing(risk.stock, fx_rate, acc_size, risk_pct)]
  /\ UNCHANGED <<portfolio, journal, call, nSuccess, nDeposits, inputsPositive>>
  /\ UNCHANGED <<race, scanner, app, monitor>>

RiskNext == NextBar \/ CalculateSizing

SpecRisk == RiskInit /\ [][RiskNext]_vars

\* the reference: True Range of bar i and its mean over the window
Max(a, b) == IF a > b THEN a ELSE b
TrueRange(stock, i) ==
  IF i = 1 THEN stock[1].High - stock[1].Low
  ELSE Max(stock[i].High - stock[i].Low,
           Max(Abs(stock[i].High - stock[i - 1].Close),
               Abs(stock[i].Low - stock[i - 1].Close)))

RECURSIVE SumTrueRange(_, _)
SumTrueRange(stock, i) ==
  IF i = 0 THEN 0 ELSE TrueRange(stock, i) + SumTrueRange(stock, i - 1)

AverageTrueRange(stock) == Frac(SumTrueRange(stock, Len(stock)), Len(stock))

\* C17 (as claimed): for every bar series the ATR the risk sizing uses is
\* the mean True Range over the window, and the stop-loss price is the
\* current close less ATR times the multiplier (2), both in EUR.
C17_AtrIsMeanTrueRange ==
  risk.last_calc # NoCalc =>
    LET c == risk.last_calc
        atr == FMul(AverageTrueRange(risk.stock), c.fx_rate)
        close == FMul(FInt(risk.stock[Len(risk.stock)].Close), c.fx_rate)
    IN /\ c.atr_eur = atr
       /\ c.stop = FSub(close, FMul(atr, FInt(2)))

\* ------------------------------------- the callers of get_hype_metrics
ScanTickers == {"AAOI", "SMCI", "NVDA"}
Rvols == {1, 3}
MinRvols == {2}

\* what scanner.get_hype_metrics(t) can give: None or a metrics record
Metrics(t, rvol) == [kind |-> "metrics", Ticker |-> t, Price |-> 1, RVOL |-> rvol]
MetricsOf(t) == {None} \cup {Metrics(t, rvol) : rvol \in Rvols}

\* list(set(discovery.get_live_market_movers())): distinct tickers, any order
ScanLists ==
  {l \in UNION {[1..n -> ScanTickers] : n \in 0..Cardinality(ScanTickers)} :
     \A i, j \in DOMAIN l : i # j => l[i] # l[j]}

\* pd.DataFrame(results).sort_values(by="RVOL", ascending=False): the rows
\* in an order of falling RVOL (rows of equal RVOL in any order)
sort_values(results) ==
  {l \in [DOMAIN results -> {results[i] : i \in DOMAIN results}] :
     /\ \A r \in DOMAIN results : \E i \in DOMAIN l : l[i] = results[r]
     /\ \A i, j \in DOMAIN l : i < j => l[i].RVOL >= l[j].RVOL}

\* agent.get_hype_verdict(ticker, metrics, news, squeeze): opaque, gives a
\* verdict {score, tier, action, thesis}
get_hype_verdict(ticker, metrics) == [kind |-> "verdict", ticker |-> ticker]

NoDeepDive == [kind |-> "no dd_data"]

AppInit ==
  /\ LedgerInit
  /\ app = [pc |-> "idle", scan_list |-> <<>>, i |-> 0, min_rvol |-> 0,
            results |-> <<>>, rejected |-> <<>>, skipped |-> {},
            top_hype_tickers |-> <<>>, dd_data |-> NoDeepDive, error |-> "none"]
  /\ race = Off /\ scanner = Off /\ risk = Off /\ monitor = Off

AppStep(next) ==
  /\ app' = next
  /\ UNCHANGED <<portfolio, journal, call, nSuccess, nDeposits, inputsPositive>>
  /\ UNCHANGED <<race, scanner, risk, monitor>>

\* lines 79-89: the button "Launch Dynamic Scan"
LaunchScan ==
  /\ app.pc = "idle"
  /\ \E scan_list \in ScanLists, min_rvol \in MinRvols :
       AppStep([app EXCEPT !.pc = "scanning", !.scan_list = scan_list, !.i = 0,
                           !.min_rvol = min_rvol, !.results = <<>>,
                           !.rejected = <<>>, !.skipped = {}])

\* lines 91-103: one turn of the loop; skipped are the tickers that gave None
ScanTicker ==
  /\ app.pc = "scanning"
  /\ app.i < Len(app.scan_list)
  /\ LET t == app.scan_list[app.i + 1] IN
     \E m \in MetricsOf(t) :
       IF m # None /\ m.RVOL >= app.min_rvol
       THEN AppStep([app EXCEPT !.i = @ + 1, !.results = Append(@, m)])
       ELSE IF m # None
       THEN AppStep([app EXCEPT !.i = @ + 1,
                       !.rejected = Append(@, [Ticker |-> t, RVOL |-> m.RVOL])])
       ELSE AppStep([app EXCEPT !.i = @ + 1, !.skipped = @ \cup {t}])

\* lines 106-112: sort_values(by="RVOL") of a frame with no rows and so no
\* column RVOL raises KeyError
SaveScan ==
  /\ app.pc = "scanning"
  /\ app.i = Len(app.scan_list)
  /\ IF app.results = <<>>
     THEN AppStep([app EXCEPT !.pc = "error", !.error = "KeyError"])
     ELSE \E sorted \in sort_values(app.results) :
            AppStep([app EXCEPT !.pc = "scanned",
                      !.top_hype_tickers = [i \in DOMAIN sorted |-> sorted[i].Ticker]])

\* lines 143-161: the button "Grade Narrative Catalyst"
GradeNarrative ==
  /\ app.pc \in {"idle", "scanned"}
  /\ \E target_ticker \in ScanTickers :
       \E metrics \in MetricsOf(target_ticker) :
         AppStep([app EXCEPT !.pc = "graded",
                   !.dd_data = [kind |-> "dd_data", metrics |-> metrics,
                                verdict |-> get_hype_verdict(target_ticker, metrics),
                                ticker |-> target_ticker]])

\* lines 163-174: m = d['metrics']; m['Price'] of None raises TypeError
RenderDeepDive ==
  /\ app.pc = "graded"
  /\ IF app.dd_data.metrics = None
     THEN AppStep([app EXCEPT !.pc = "error", !.error = "TypeError"])
     ELSE AppStep([app EXCEPT !.pc = "rendered"])

AppNext == LaunchScan \/ ScanTicker \/ SaveScan \/ GradeNarrative \/ RenderDeepDive

SpecApp == AppInit /\ [][AppNext]_vars

\* the loop has taken every ticker of the list, in its order
AllScanned ==
  /\ app.i = Len(app.scan_list)
  /\ Len(app.results) + Len(app.rejected) + Cardinality(app.skipped) = app.i

\* C18 (as claimed): in the radar scan a None for one ticker does not stop
\* the remaining tickers from being scanned, and in the deep dive a None for
\* the analysed ticker does not lead to an error state.
C18_NoneIsAbsence ==
  /\ (app.pc = "scanning" /\ app.skipped # {}) => app.error = "none"
  /\ (app.pc \in {"scanned", "error"} /\ app.error # "TypeError") => AllScanned
  /\ (app.dd_data # NoDeepDive /\ app.dd_data.metrics = None) => app.error = "none"

\* ------------------------------------------------ the autoshutdown monitor
CPU_IDLE_THRESHOLD == 5
MAX_IDLE_MINUTES == 30
CHECK_INTERVAL == 60

\* psutil.cpu_percent(interval=5), in percent, and the lines of `who`
CpuReadings == {0, 4, 5, 60}
SshSessions == {0, 1}

\* lines 22-33 with the reset left out
check_idle_never_resets(idle_counter, cpu_usage, ssh_sessions) ==
  IF cpu_usage < CPU_IDLE_THRESHOLD /\ ssh_sessions = 0
  THEN [idle_counter |-> idle_counter + 1,
        shutdown |-> idle_counter + 1 >= MAX_IDLE_MINUTES]
  ELSE [idle_counter |-> idle_counter, shutdown |-> FALSE]

\* lines 22-33: the counter after the check, and whether the shutdown
\* command is issued
check_idle(idle_counter, cpu_usage, ssh_sessions) ==
  IF cpu_usage < CPU_IDLE_THRESHOLD /\ ssh_sessions = 0
  THEN [idle_counter |-> idle_counter + 1,
        shutdown |-> idle_counter + 1 >= MAX_IDLE_MINUTES]
  ELSE [idle_counter |-> 0, shutdown |-> FALSE]

\* last is the outcome of the latest turn of the loop, idle_run the number
\* of idle checks since the latest check that was not idle (a turn whose
\* measurement raised made no check), shutdowns the number of times the
\* shutdown command was issued
MonitorInit ==
  /\ LedgerInit
  /\ monitor = [pc |-> "check", idle_counter |-> 0, cpu_usage |-> 0,
                ssh_sessions |-> 0, sleep |-> 0, last |-> "none",
                idle_run |-> 0, shutdowns |-> 0]
  /\ race = Off /\ scanner = Off /\ risk = Off /\ app = Off

MonitorStep(next) ==
  /\ monitor' = next
  /\ UNCHANGED <<portfolio, journal, call, nSuccess, nDeposits, inputsPositive>>
  /\ UNCHANGED <<race, scanner, risk, app>>

\* lines 15-35: one check
MonitorCheck ==
  /\ monitor.pc = "check"
  /\ \E cpu_usage \in CpuReadings, ssh_sessions \in SshSessions :
       LET out == check_idle(monitor.idle_counter, cpu_usage, ssh_sessions)
           idle == cpu_usage < CPU_IDLE_THRESHOLD /\ ssh_sessions = 0
       IN MonitorStep([monitor EXCEPT
            !.pc = IF out.shutdown THEN "stopped" ELSE "sleep",
            !.idle_counter = out.idle_counter,
            !.cpu_usage = cpu_usage, !.ssh_sessions = ssh_sessions,
            !.sleep = IF out.shutdown THEN 0 ELSE CHECK_INTERVAL - 5,
            !.last = IF idle THEN "idle" ELSE "busy",
            !.idle_run = IF idle THEN @ + 1 ELSE 0,
            !.shutdowns = IF out.shutdown THEN @ + 1 ELSE @])

\* lines 17-20 raise, lines 37-39: the counter is left as it is
MonitorError ==
  /\ monitor.pc = "check"
  /\ MonitorStep([monitor EXCEPT !.pc = "sleep", !.sleep = CHECK_INTERVAL,
                                 !.last = "error"])

\* time.sleep(...) returns: the next turn of the loop
MonitorSleep ==
  /\ monitor.pc = "sleep"
  /\ MonitorStep([monitor EXCEPT !.pc = "check", !.sleep = 0])

MonitorNext == MonitorCheck \/ MonitorError \/ MonitorSleep

SpecMonitor == MonitorInit /\ [][MonitorNext]_vars

\* C20: the shutdown command is issued only when the MAX_IDLE_MINUTES most
\* recent checks were all idle; every check that is not idle resets
\* idle_counter to 0; idle_counter always stays in 0..MAX_IDLE_MINUTES; and
\* after the shutdown command the loop takes no further step.
C20_ShutdownOnlyAfterIdleRun ==
  /\ [](/\ monitor.idle_counter \in 0..MAX_IDLE_MINUTES
        /\ monitor.shutdowns > 0 =>
             (monitor.last = "idle" /\ monitor.idle_run >= MAX_IDLE_MINUTES)
        /\ monitor.last = "busy" => monitor.idle_counter = 0
        /\ monitor.shutdowns > 0 <=> monitor.pc = "stopped")
  /\ [][monitor.pc = "stopped" => monitor' = monitor]_vars

\* the shutdown command has been issued, at the 30th idle check in a row
C20_Witness ==
  /\ monitor.pc = "stopped"
  /\ monitor.shutdowns = 1
  /\ monitor.idle_counter = MAX_IDLE_MINUTES
  /\ monitor.cpu_usage < CPU_IDLE_THRESHOLD /\ monitor.ssh_sessions = 0
====
